---- MODULE Spec2Model ----
(***************************************************************************)
(* Model of the mood log (main.py, data_manager.py).                       *)
(*                                                                         *)
(* The log file is modelled at the level csv.reader / csv.writer work at:  *)
(* a file either does not exist or is a sequence of rows, a row being a    *)
(* sequence of text fields.  Every row is line-terminated, as csv.writer   *)
(* leaves it, except the last row of a file that lost its end; a file can  *)
(* also end inside a character, and it is then not UTF-8 and no reader     *)
(* decodes it.  main() may find such a log at its first start (Spec);      *)
(* SpecIntact starts it on whole logs only, SpecMigrate applies            *)
(* ensure_storage alone to longer logs.                                    *)
(* Texts are TLA+ strings: str.strip is computed on the characters, and    *)
(* str.lower, int(), str(), date.isoformat and date.fromisoformat are      *)
(* tables over the texts that occur in the model.                          *)
(*                                                                         *)
(* Message texts are abbreviated: "L1","L2" are the two built-in low-tier  *)
(* messages of load_messages, "M1","M2" the mid-tier, "H1","H2" the        *)
(* high-tier ones; "A","B" are messages of a user-supplied messages.json.  *)
(* The built-in messages are written in characters of 3 bytes each in      *)
(* UTF-8 (BuiltInChars gives their lengths); "M1:5" stands for the first 5  *)
(* characters of M1 (the digit is one of 0..9, a..e for 0..14).  Every      *)
(* other text of the model is ASCII.                                        *)
(***************************************************************************)
EXTENDS Integers, Sequences, FiniteSets, TLC

VARIABLES
    csv,            \* data/mood_log.csv: [exists, rows, unterminated, partial, after]
    messages_json,  \* messages.json as found on disk: [status, data]
    today,          \* date.today(), as an index into IsoDays
    pc,             \* where main() stands
    messages,       \* main: messages (the loaded message bank)
    today_str,      \* main: today_str of the current loop iteration
    score,          \* main: score of the current entry
    used_recent,    \* main: used_recent of the current entry
    first_msg,      \* the message choose_message returned first for the entry
    msg,            \* main: msg, the message that will be recorded
    out,            \* what the last operation printed or returned
    csv_before,     \* history: the file as the last ensure_storage found it
    csv_prior,      \* history: the file as the last append_record found it
    fs_error,       \* history: filesystem error met by the last ensure_storage
    runs,           \* number of process starts so far
    appends,        \* number of rows appended so far
    arg             \* arguments of a function called on its own (SpecChoose)

vars == <<csv, messages_json, today, pc, messages, today_str, score, used_recent,
          first_msg, msg, out, csv_before, csv_prior, fs_error, runs, appends, arg>>

----------------------------------------------------------------------------
(* Bounds of the model *)

MaxRows == 1        \* data rows of the files main() finds at the first start,
                    \* drawn in every combination (TwoRecordFiles adds to them)
MaxOldRows == 2     \* data rows of a file handed to the migration on its own
MaxAppends == 1     \* rows appended over all sessions
MaxRuns == 2        \* process starts
MaxN == 3           \* window lengths 1..MaxN checked besides those main() asks for

\* date.today() during the run: IsoDays[35] = 2024-03-06.
StartDay == 35

----------------------------------------------------------------------------
(* Texts and the conversions applied to them *)

\* The calendar around the run: IsoDays[d] is date.isoformat() of day d.
IsoDays ==
  << "2024-02-01", "2024-02-02", "2024-02-03", "2024-02-04", "2024-02-05",
     "2024-02-06", "2024-02-07", "2024-02-08", "2024-02-09", "2024-02-10",
     "2024-02-11", "2024-02-12", "2024-02-13", "2024-02-14", "2024-02-15",
     "2024-02-16", "2024-02-17", "2024-02-18", "2024-02-19", "2024-02-20",
     "2024-02-21", "2024-02-22", "2024-02-23", "2024-02-24", "2024-02-25",
     "2024-02-26", "2024-02-27", "2024-02-28", "2024-02-29", "2024-03-01",
     "2024-03-02", "2024-03-03", "2024-03-04", "2024-03-05", "2024-03-06",
     "2024-03-07", "2024-03-08", "2024-03-09", "2024-03-10", "2024-03-11" >>

isoformat(d) == IsoDays[d]

\* date.fromisoformat(s): ok = FALSE stands for ValueError.
fromisoformat(s) ==
    IF \E d \in DOMAIN IsoDays : IsoDays[d] = s
    THEN [ok |-> TRUE, val |-> CHOOSE d \in DOMAIN IsoDays : IsoDays[d] = s]
    ELSE [ok |-> FALSE, val |-> 0]

\* str.lstrip(): leading blanks removed (the blank is the only whitespace
\* character in the texts of the model).
RECURSIVE lstrip(_)
lstrip(s) ==
    IF Len(s) = 0 THEN s
    ELSE IF SubSeq(s, 1, 1) = " " THEN lstrip(SubSeq(s, 2, Len(s))) ELSE s

\* str.rstrip(): trailing blanks removed.
RECURSIVE rstrip(_)
rstrip(s) ==
    IF Len(s) = 0 THEN s
    ELSE IF SubSeq(s, Len(s), Len(s)) = " " THEN rstrip(SubSeq(s, 1, Len(s) - 1)) ELSE s

\* str.strip().
strip(s) == rstrip(lstrip(s))

\* str.lower() on the texts of the model that carry upper-case letters.
LowerTable ==
    ("V" :> "v") @@ ("D" :> "d") @@ ("N" :> "n") @@ ("Y" :> "y") @@ ("YES" :> "yes")

lower(s) == IF s \in DOMAIN LowerTable THEN LowerTable[s] ELSE s

\* The decimal numerals that occur as a whole field or input in the model.
IntTable ==
    ("1" :> 1) @@ ("2" :> 2) @@ ("3" :> 3) @@ ("4" :> 4) @@ ("5" :> 5) @@
    ("6" :> 6) @@ ("7" :> 7) @@ ("8" :> 8) @@ ("9" :> 9) @@ ("10" :> 10) @@
    ("0" :> 0) @@ ("11" :> 11)

\* int(s): outer whitespace is ignored; a text that is no numeral raises
\* ValueError (ok = FALSE).
int(s) ==
    LET t == strip(s)
    IN  IF t \in DOMAIN IntTable THEN [ok |-> TRUE, val |-> IntTable[t]]
        ELSE [ok |-> FALSE, val |-> 0]

\* str(i), as csv.writer writes an integer field: the decimal numeral of i.
str(i) ==
    CHOOSE s \in DOMAIN IntTable : IntTable[s] = i

Range(s) == {s[i] : i \in DOMAIN s}

Min(a, b) == IF a < b THEN a ELSE b

Max(a, b) == IF a > b THEN a ELSE b

\* load_messages, lines 41-54: the number of characters of each built-in
\* message.  Each of these characters takes 3 bytes in UTF-8.
BuiltInChars ==
    ("L1" :> 15) @@ ("L2" :> 15) @@ ("M1" :> 15) @@ ("M2" :> 13) @@
    ("H1" :> 10) @@ ("H2" :> 15)

\* The digit that stands for j characters in the name of a cut message.
CharDigits == "0123456789abcde"

\* The 3-byte characters a text starts with: msg is the built-in message they
\* come from ("" when the text starts with none), chars their number, used
\* the length of the name that stands for them in the model.
Wide(s) ==
    IF Len(s) >= 2 /\ SubSeq(s, 1, 2) \in DOMAIN BuiltInChars
    THEN LET m == SubSeq(s, 1, 2)
         IN  IF Len(s) >= 4 /\ SubSeq(s, 3, 3) = ":"
             THEN [msg |-> m,
                   chars |-> CHOOSE j \in 0..14 :
                                 SubSeq(CharDigits, j + 1, j + 1) = SubSeq(s, 4, 4),
                   used |-> 4]
             ELSE [msg |-> m, chars |-> BuiltInChars[m], used |-> 2]
    ELSE [msg |-> "", chars |-> 0, used |-> 0]

\* len(s.encode("utf-8")): the 3-byte characters, then ASCII.
Utf8Len(s) == 3 * Wide(s).chars + (Len(s) - Wide(s).used)

\* The first k bytes of text s, 0 <= k <= Utf8Len(s): text names the whole
\* characters among them, partial is the number of bytes of a further
\* character cut by the end (0 when the bytes end with a character).
CutText(s, k) ==
    LET w == Wide(s)
    IN  IF k >= 3 * w.chars
        THEN [text |-> SubSeq(s, 1, w.used + (k - 3 * w.chars)), partial |-> 0]
        ELSE IF k = 0
        THEN [text |-> "", partial |-> 0]
        ELSE [text |-> w.msg \o ":" \o SubSeq(CharDigits, (k \div 3) + 1, (k \div 3) + 1),
              partial |-> k % 3]

----------------------------------------------------------------------------
(* Schema store: main.py *)

HEADER_V2 == <<"date", "score", "message", "note">>

HEADER_V1 == <<"date", "score", "message">>

\* A file is [exists, rows, unterminated, partial, after].  rows are the rows
\* csv.reader yields; unterminated says that the bytes end inside the last
\* row, before its line terminator (csv.writer ends every row it writes with
\* "\r\n").  partial > 0 says that a write stopped inside a character: the
\* last field of the last row names the whole characters written of the
\* message, partial is the number of bytes of its next character that follow
\* them, and after are the rows appended behind these bytes.  Such a file is
\* not UTF-8.
NoFile ==
    [exists |-> FALSE, rows |-> <<>>, unterminated |-> FALSE, partial |-> 0,
     after |-> <<>>]

File(rows) ==
    [exists |-> TRUE, rows |-> rows, unterminated |-> FALSE, partial |-> 0,
     after |-> <<>>]

\* Decoding the file as UTF-8 fails.
Undecodable(f) == f.exists /\ f.partial > 0

\* The exception a reader of an undecodable file raises, as a result value.
UnicodeDecodeError == "UnicodeDecodeError"

\* Bytes csv.writer writes for the fields of row r, commas included, without
\* the line terminator (no text of the model needs quotes).
RECURSIVE FieldsBytes(_)
FieldsBytes(r) ==
    IF r = <<>> THEN 0
    ELSE Utf8Len(Head(r)) + (IF Len(r) > 1 THEN 1 ELSE 0) + FieldsBytes(Tail(r))

\* Bytes of the rows as csv.writer writes them, "\r\n" after each row.
RECURSIVE FileBytes(_)
FileBytes(rows) ==
    IF rows = <<>> THEN 0 ELSE FieldsBytes(Head(rows)) + 2 + FileBytes(Tail(rows))

\* The first k bytes of row r, 1 <= k <= FieldsBytes(r): fields are the
\* whole fields before byte k and the cut one (empty when the bytes end with
\* a comma), partial the bytes of a character cut by the end.
RECURSIVE CutRow(_, _)
CutRow(r, k) ==
    IF k <= Utf8Len(Head(r))
    THEN [fields |-> <<CutText(Head(r), k).text>>,
          partial |-> CutText(Head(r), k).partial]
    ELSE LET rest == CutRow(Tail(r), k - Utf8Len(Head(r)) - 1)
         IN  [fields |-> <<Head(r)>> \o rest.fields, partial |-> rest.partial]

\* The file that holds the first k bytes of what csv.writer writes for rows:
\* the whole rows (a row followed by "\r" alone reads as a whole row) and,
\* when the bytes end inside a row, the cut row.
RECURSIVE CutFile(_, _)
CutFile(rows, k) ==
    IF k = 0 \/ rows = <<>>
    THEN File(<<>>)
    ELSE LET r == Head(rows)
             n == FieldsBytes(r)
         IN  IF k > n
             THEN LET rest == CutFile(Tail(rows), Max(0, k - n - 2))
                  IN  [rest EXCEPT !.rows = <<r>> \o rest.rows]
             ELSE [exists |-> TRUE, rows |-> <<CutRow(r, k).fields>>,
                   unterminated |-> TRUE, partial |-> CutRow(r, k).partial,
                   after |-> <<>>]

\* upgrade_csv_schema, lines 90-94 and 101-105: the row written for old row r.
UpgradeRow(r) == IF Len(r) = 3 THEN <<r[1], r[2], r[3], "">> ELSE r

\* Mutant of Rewritten: the old rows are written last row first.
RewrittenReversed(rows) ==
    <<HEADER_V2>> \o [i \in 1..Len(rows) |-> UpgradeRow(rows[Len(rows) + 1 - i])]

\* upgrade_csv_schema, lines 87-94 and 98-105: the rows the rewrite writes.
Rewritten(rows) == <<HEADER_V2>> \o [i \in 1..Len(rows) |-> UpgradeRow(rows[i])]

\* Mutant of NeedsRewrite: "len(header) >= 3" for "len(header) == 3".
NeedsRewriteFrom3(f) == IF Len(f.rows) = 0 THEN TRUE ELSE Len(f.rows[1]) >= 3

\* upgrade_csv_schema, lines 86 and 97: the file is rewritten when it has no
\* row at all (header is None) or its first row has 3 fields.
NeedsRewrite(f) == IF Len(f.rows) = 0 THEN TRUE ELSE Len(f.rows[1]) = 3

\* upgrade_csv_schema.  fault is the filesystem error the call meets: "none",
\* "read" (open/read/decode of the old file fails), "open" (opening the file
\* for writing fails), "write" (the filesystem takes k bytes of the rewritten
\* file and refuses the rest: disk full, file size limit; open("w") has
\* truncated the file by then, and the error is raised when the buffered
\* text is flushed).  A file that is not UTF-8 fails to decode at lines 74-78
\* and is left as it is, as under a read error.  Result: the file afterwards,
\* wrote = the file was opened for writing, raised = an exception leaves the
\* function, hit = the fault was met.
upgrade_csv_schema(f, fault, k) ==
    IF ~f.exists
    THEN [csv |-> f, wrote |-> FALSE, raised |-> FALSE, hit |-> FALSE]
    ELSE IF fault = "read" \/ Undecodable(f)
    THEN [csv |-> f, wrote |-> FALSE, raised |-> FALSE, hit |-> fault = "read"]
    ELSE LET rows == IF Len(f.rows) = 0 THEN <<>> ELSE Tail(f.rows)
             new == Rewritten(rows)
         IN  IF ~NeedsRewrite(f)
             THEN [csv |-> f, wrote |-> FALSE, raised |-> FALSE, hit |-> FALSE]
             ELSE IF fault = "open"
             THEN [csv |-> f, wrote |-> FALSE, raised |-> TRUE, hit |-> TRUE]
             ELSE IF fault = "write" /\ k < FileBytes(new)
             THEN [csv |-> CutFile(new, k),
                   wrote |-> TRUE, raised |-> TRUE, hit |-> TRUE]
             ELSE [csv |-> File(new), wrote |-> TRUE, raised |-> FALSE, hit |-> FALSE]

\* ensure_storage.  The creation of a missing file (lines 31-35) is outside
\* any handler: a refused open leaves no file, a refused write the first k
\* bytes of the header line, and the exception leaves the function.
ensure_storage(f, fault, k) ==
    IF ~f.exists
    THEN IF fault = "open"
         THEN [csv |-> f, wrote |-> FALSE, raised |-> TRUE, hit |-> TRUE]
         ELSE IF fault = "write" /\ k < FileBytes(<<HEADER_V2>>)
         THEN [csv |-> CutFile(<<HEADER_V2>>, k),
               wrote |-> TRUE, raised |-> TRUE, hit |-> TRUE]
         ELSE [csv |-> File(<<HEADER_V2>>), wrote |-> TRUE, raised |-> FALSE,
               hit |-> FALSE]
    ELSE upgrade_csv_schema(f, fault, k)

\* append_record: one row written in append mode (which creates a missing
\* file).  The bytes of the row follow the bytes of the file: when the file
\* ends inside a row, the day continues the last field of that row and the
\* other fields follow it; when it ends inside a character, the row follows
\* the bytes of that character and the file stays undecodable.
append_record(f, day, s, message, note) ==
    IF f.partial > 0
    THEN [f EXCEPT !.after = @ \o << <<day, str(s), message, note>> >>]
    ELSE IF f.unterminated
    THEN LET last == f.rows[Len(f.rows)]
             joined == SubSeq(last, 1, Len(last) - 1)
                       \o <<last[Len(last)] \o day, str(s), message, note>>
         IN  File(SubSeq(f.rows, 1, Len(f.rows) - 1) \o <<joined>>)
    ELSE File(f.rows \o << <<day, str(s), message, note>> >>)

\* Rows after the first, as every reader sees them after next(reader, None).
DataRows(f) == IF Len(f.rows) = 0 THEN <<>> ELSE Tail(f.rows)

\* read_all_records (main.py) and _read_all_records (data_manager.py): the
\* loop over the data rows, as a fold from the left.
RECURSIVE ReadLoop(_, _)
ReadLoop(rows, acc) ==
    IF rows = <<>> THEN acc
    ELSE LET r == Head(rows)
         IN  IF Len(r) >= 2
             THEN IF int(r[2]).ok
                  THEN ReadLoop(Tail(rows), Append(acc, <<strip(r[1]), int(r[2]).val>>))
                  ELSE ReadLoop(Tail(rows), acc)
             ELSE ReadLoop(Tail(rows), acc)

\* The decoding error of a file that is not UTF-8 leaves the function.
read_all_records(f) ==
    IF ~f.exists THEN <<>>
    ELSE IF Undecodable(f) THEN UnicodeDecodeError
    ELSE ReadLoop(DataRows(f), <<>>)

\* read_existing_for_date; a decoding error leaves the function.
read_existing_for_date(f, target_date) ==
    IF ~f.exists THEN <<>>
    ELSE IF Undecodable(f) THEN UnicodeDecodeError
    ELSE SelectSeq(DataRows(f), LAMBDA r : IF Len(r) >= 1 THEN r[1] = target_date ELSE FALSE)

\* The rows a reader gets from a file that is not UTF-8 before the decoding
\* error is raised: the lines before the cut one when the file ends with the
\* cut character (the error comes at the end of the file), none when rows
\* follow it (the file is decoded in blocks of 8192 bytes and the files of the
\* model are shorter than one block).
RowsBeforeError(f) ==
    IF f.after = <<>> THEN SubSeq(f.rows, 1, Len(f.rows) - 1) ELSE <<>>

\* read_recent_messages(last_days), with date.today() = t.  Lines 167-181: an
\* exception while reading ends the loop and the messages found so far are
\* returned.
read_recent_messages(f, t, last_days) ==
    IF ~f.exists THEN {}
    ELSE LET cutoff == t - (last_days - 1)
             rows == IF Undecodable(f)
                     THEN IF RowsBeforeError(f) = <<>> THEN <<>>
                          ELSE Tail(RowsBeforeError(f))
                     ELSE DataRows(f)
             InWindow(r) ==
                 IF Len(r) >= 3
                 THEN LET d == fromisoformat(strip(r[1]))
                      IN  IF d.ok THEN (cutoff <= d.val) /\ (d.val <= t) ELSE FALSE
                 ELSE FALSE
         IN  {rows[i][3] : i \in {j \in DOMAIN rows : InWindow(rows[j])}}

----------------------------------------------------------------------------
(* Aggregator: data_manager.py (and the copies of it in main.py) *)

RECURSIVE SumScores(_)
SumScores(records) ==
    IF records = <<>> THEN 0 ELSE Head(records)[2] + SumScores(Tail(records))

\* aggregate_daily_average / _aggregate_daily_average: day -> mean.  The mean
\* sums[d] / counts[d] is kept as the pair <<sums[d], counts[d]>>.
aggregate_daily_average(records) ==
    [d \in {records[i][1] : i \in DOMAIN records} |->
        LET same == SelectSeq(records, LAMBDA p : p[1] = d)
        IN  <<SumScores(same), Len(same)>>]

\* Mutant of last_n_dates: range(n, 0, -1) for range(n - 1, -1, -1).
last_n_dates_shifted(t, n) == [i \in 1..n |-> isoformat(t - (n - i) - 1)]

\* last_n_dates / _last_n_dates, with date.today() = t:
\* [today - timedelta(days=i) for i in range(n - 1, -1, -1)], in ISO format.
last_n_dates(t, n) == [i \in 1..n |-> isoformat(t - (n - i))]

\* The absent marker (Python None) of an aligned value.
None == <<>>

\* daily_avg.get(d) for each d of days.
Align(daily_avg, days) ==
    [i \in 1..Len(days) |->
        IF days[i] \in DOMAIN daily_avg THEN daily_avg[days[i]] ELSE None]

\* _read_aligned_series(last_days), with date.today() = t.
read_aligned_series(f, t, last_days) ==
    LET records == read_all_records(f)
    IN  IF Undecodable(f) THEN UnicodeDecodeError
        ELSE IF records = <<>>
        THEN [days |-> <<>>, values |-> <<>>]
        ELSE LET days == last_n_dates(t, last_days)
             IN  [days |-> days,
                  values |-> Align(aggregate_daily_average(records), days)]

\* show_recent_stats(k), lines 232-239: the days and aligned values of the
\* table it prints; nothing but a notice when there is no record.
show_recent_stats(f, t, k) ==
    LET records == read_all_records(f)
    IN  IF Undecodable(f) THEN UnicodeDecodeError
        ELSE IF records = <<>>
        THEN [days |-> <<>>, values |-> <<>>]
        ELSE LET days == last_n_dates(t, k)
             IN  [days |-> days,
                  values |-> Align(aggregate_daily_average(records), days)]

\* render_diary(last_k): the rows it prints.
render_diary(f, last_k) ==
    IF ~f.exists THEN <<>>
    ELSE IF Undecodable(f) THEN UnicodeDecodeError
    ELSE LET diary_rows ==
                 SelectSeq(DataRows(f),
                           LAMBDA r : IF Len(r) >= 4 THEN strip(r[4]) # "" ELSE FALSE)
         IN  SubSeq(diary_rows, Max(1, Len(diary_rows) - last_k + 1), Len(diary_rows))

----------------------------------------------------------------------------
(* Message selector: main.py *)

Tiers == {"low", "mid", "high"}

\* load_messages: defaults.
defaults == [low |-> <<"L1", "L2">>, mid |-> <<"M1", "M2">>, high |-> <<"H1", "H2">>]

\* load_messages.  mj.status: "absent" (no candidate path exists), "invalid"
\* (json.load raises), "ok" (mj.data is the parsed mapping).
load_messages(mj) ==
    IF mj.status # "ok" THEN defaults
    ELSE [t \in Tiers |-> IF t \in DOMAIN mj.data THEN mj.data[t] ELSE defaults[t]]

\* Mutant of TierOf: "score < 4" for "score <= 4".
TierOfBelow4(s) == IF s < 4 THEN "low" ELSE IF s <= 7 THEN "mid" ELSE "high"

\* choose_message, lines 124-129: the tier of a score.
TierOf(s) == IF s <= 4 THEN "low" ELSE IF s <= 7 THEN "mid" ELSE "high"

\* choose_message, lines 125, 127, 129: the built-in message of a tier.
BuiltIn(t) == IF t = "low" THEN "L1" ELSE IF t = "mid" THEN "M1" ELSE "H1"

\* choose_message, lines 124-129: messages.get(tier) or [built-in].
Pool(s, bank) ==
    LET t == TierOf(s)
    IN  IF t \in DOMAIN bank
        THEN IF bank[t] # <<>> THEN bank[t] ELSE <<BuiltIn(t)>>
        ELSE <<BuiltIn(t)>>

\* Mutant of choose_message: exclude is not added to the exclusion set.
choose_message_ignoring_exclude(s, bank, exclude, excludes) ==
    LET pool == IF TierOf(s) \in DOMAIN bank
                THEN IF bank[TierOf(s)] # <<>> THEN bank[TierOf(s)] ELSE <<BuiltIn(TierOf(s))>>
                ELSE <<BuiltIn(TierOf(s))>>
        candidates == SelectSeq(pool, LAMBDA m : m \notin excludes)
    IN  IF candidates # <<>> THEN Range(candidates) ELSE Range(pool)

\* choose_message: the set of messages random.choice may return.  exclude is
\* <<>> for None and <<m>> for the message m.
choose_message(s, bank, exclude, excludes) ==
    LET pool == Pool(s, bank)
        exclude_set == Range(exclude) \cup excludes
        candidates == SelectSeq(pool, LAMBDA m : m \notin exclude_set)
    IN  IF candidates # <<>> THEN Range(candidates) ELSE Range(pool)

----------------------------------------------------------------------------
(* What the program may find on disk and what the user may type *)

SeqsUpTo(S, n) == UNION {[1..k -> S] : k \in 0..n}

\* First rows of a file found at the first start: the v2 header, the v1
\* header, a 2-field header, and a data row of a file written without header.
FirstRows ==
    { HEADER_V2, HEADER_V1, <<"date", "score">>,
      <<"2024-03-05", "6", "M2", "memo">> }

\* Later rows of such a file: a v1 row dated today, a v2 row with padded day
\* and score, a v2 row older than 30 days, a row whose score is no integer,
\* a one-field row.
LaterRows ==
    { <<"2024-03-06", "5", "M1">>,
      <<" 2024-03-05 ", " 7 ", "B", "memo">>,
      <<"2024-02-02", "3", "A", "">>,
      <<"2024-03-05", "abc">>,
      <<"junk">> }

\* Logs with at most n data rows as csv.writer leaves them (every row
\* line-terminated, UTF-8), a zero-byte log and no log.
WholeFiles(n) ==
    {NoFile, File(<<>>)} \cup
    {File(<<h>> \o rs) : h \in FirstRows, rs \in SeqsUpTo(LaterRows, n)}

\* The log f without its last n bytes.
LostEnd(f, n) == CutFile(f.rows, FileBytes(f.rows) - n)

\* Logs that lost their end (an interrupted or refused write, an editor that
\* leaves the last line open): the v2 header alone and the v2 header with a
\* record of the built-in mid message, without the last line terminator
\* (2 bytes) and without the last 4 bytes; the record then ends inside the
\* last character of its message and the log is not UTF-8.
DamagedFiles ==
    {LostEnd(f, n) : f \in {File(<<HEADER_V2>>),
                            File(<<HEADER_V2, <<"2024-03-06", "5", "M1", "">> >>)},
                     n \in {2, 4}}

\* A v1 log of two records of different days, a 4-field row before a 3-field
\* row, and the same log in the v2 layout.
TwoRecordFiles ==
    {File(<<HEADER_V1, <<" 2024-03-05 ", " 7 ", "B", "memo">>,
                       <<"2024-03-06", "5", "M1">> >>),
     File(<<HEADER_V2, <<" 2024-03-05 ", " 7 ", "B", "memo">>,
                       <<"2024-03-06", "5", "M1", "">> >>)}

\* The whole logs main() may find at the first start: every log of up to
\* MaxRows data rows, and the two logs of two records.
IntactFiles == WholeFiles(MaxRows) \cup TwoRecordFiles

\* The logs main() may find at the first start.
InitFiles == IntactFiles \cup DamagedFiles

\* The logs handed to the migration on its own: the whole logs with up to
\* MaxOldRows data rows, in every order and with repeated rows, and every
\* proper prefix of their bytes.
OldFiles ==
    WholeFiles(MaxOldRows) \cup
    UNION {{CutFile(f.rows, k) : k \in 1..(FileBytes(f.rows) - 1)} :
               f \in WholeFiles(MaxOldRows) \ {NoFile}}

\* messages.json: missing or unparsable, or a mapping with some of the tiers.
MessageFiles ==
    { [status |-> "absent", data |-> <<>>],
      [status |-> "ok", data |-> ("low" :> <<"A", "B">>)],
      [status |-> "ok", data |-> ("low" :> <<"A">>) @@ ("mid" :> <<>>)] }

\* Lines typed at the main prompt.  The code also takes a third, non-ASCII
\* spelling of "no" (and of "yes" below), which behaves as "no" ("yes") does.
PromptInputs == {"N", "V", "d", "abc", "11", "3", " 5 "}

SubInputs == {"1", "2", "5", "x"}

RawNs == {"", "8", "abc"}

RawKs == {"", "1"}

SwapInputs == {" Y ", ""}

NoteInputs == {" ok "}

NoOut == [op |-> "none"]

NoArg == [fn |-> "none"]

\* The state at the start of main(), the log being one of files.
InitOn(files) ==
    /\ csv \in files
    /\ messages_json \in MessageFiles
    /\ today = StartDay
    /\ pc = "start"
    /\ messages = [t \in Tiers |-> <<>>]
    /\ today_str = ""
    /\ score = 0
    /\ used_recent = {}
    /\ first_msg = ""
    /\ msg = ""
    /\ out = NoOut
    /\ csv_before = NoFile
    /\ csv_prior = NoFile
    /\ fs_error = "none"
    /\ runs = 1
    /\ appends = 0
    /\ arg = NoArg

Init == InitOn(InitFiles)

\* The start of main() on a whole log.
InitIntact == InitOn(IntactFiles)

----------------------------------------------------------------------------
(* main(): one action per step from one input() call to the next *)

\* main, line 293: ensure_storage(), no filesystem error.
EnsureStorage ==
    /\ pc = "start"
    /\ csv' = ensure_storage(csv, "none", 0).csv
    /\ csv_before' = csv
    /\ fs_error' = "none"
    /\ out' = [op |-> "ensure_storage", wrote |-> ensure_storage(csv, "none", 0).wrote]
    /\ pc' = "load"
    /\ UNCHANGED <<messages_json, today, messages, today_str, score, used_recent,
                   first_msg, msg, csv_prior, runs, appends, arg>>

\* main, line 293: ensure_storage() meeting a filesystem error while it
\* creates the file or migrates it.  An exception that leaves ensure_storage
\* ends the process.
EnsureStorageFault ==
    /\ pc = "start"
    /\ \E fault \in {"read", "open", "write"} :
       \E k \in IF fault = "write" THEN 0..(FileBytes(Rewritten(DataRows(csv))) - 1) ELSE {0} :
         LET r == ensure_storage(csv, fault, k)
         IN  /\ r.hit
             /\ csv' = r.csv
             /\ fs_error' = fault
             /\ out' = [op |-> "ensure_storage", wrote |-> r.wrote]
             /\ pc' = IF r.raised THEN "crashed" ELSE "load"
    /\ csv_before' = csv
    /\ UNCHANGED <<messages_json, today, messages, today_str, score, used_recent,
                   first_msg, msg, csv_prior, runs, appends, arg>>

\* main, line 294: messages = load_messages().
LoadMessages ==
    /\ pc = "load"
    /\ messages' = load_messages(messages_json)
    /\ out' = [op |-> "load_messages"]
    /\ pc' = "top"
    /\ UNCHANGED <<csv, messages_json, today, today_str, score, used_recent,
                   first_msg, msg, csv_before, csv_prior, fs_error, runs, appends, arg>>

\* main, lines 296-302: the top of the loop; today_str is set, the entries
\* already made today are counted and announced, and the prompt is shown.
\* The decoding error of a log that is not UTF-8 leaves read_existing_for_date
\* (line 298) and main, which has no handler: the process ends.
LoopTop ==
    /\ pc = "top"
    /\ today_str' = isoformat(today)
    /\ IF Undecodable(csv)
       THEN /\ out' = [op |-> "read_existing_for_date",
                       raised |-> read_existing_for_date(csv, isoformat(today))]
            /\ pc' = "crashed"
       ELSE /\ out' = [op |-> "prompt",
                       existing |-> Len(read_existing_for_date(csv, isoformat(today)))]
            /\ pc' = "prompt"
    /\ UNCHANGED <<csv, messages_json, today, messages, score, used_recent,
                   first_msg, msg, csv_before, csv_prior, fs_error, runs, appends, arg>>

\* main, lines 302-303: key = raw.lower() of the stripped input.
Key(raw) == lower(strip(raw))

\* main, lines 305-307: "n" / "no" ends the session.
Quit ==
    /\ pc = "prompt"
    /\ \E raw \in PromptInputs :
         /\ Key(raw) \in {"n", "no"}
         /\ out' = [op |-> "quit", raw |-> raw]
    /\ pc' = "exited"
    /\ UNCHANGED <<csv, messages_json, today, messages, today_str, score, used_recent,
                   first_msg, msg, csv_before, csv_prior, fs_error, runs, appends, arg>>

\* main, lines 333-338: the window length of option 5.
CustomDays(raw_n) ==
    LET n == IF strip(raw_n) # ""
             THEN IF int(strip(raw_n)).ok THEN int(strip(raw_n)).val ELSE 30
             ELSE 30
    IN  Max(7, Min(180, n))

\* main, lines 309-323: the V command; the menu is printed and the option
\* asked for.
Visualize ==
    /\ pc = "prompt"
    /\ \E raw \in PromptInputs :
         /\ Key(raw) = "v"
         /\ out' = [op |-> "menu", raw |-> raw]
    /\ pc' = "option"
    /\ UNCHANGED <<csv, messages_json, today, messages, today_str, score, used_recent,
                   first_msg, msg, csv_before, csv_prior, fs_error, runs, appends, arg>>

\* main, lines 323-327 and 342: options 1 and 2 read the log and render the
\* last 30 days; a decoding error of the log ends the process, here and in
\* the steps below that read it.  (Options 3 and 4 export the same 30-day series to a chart
\* file and are not among the inputs of the model.)
RenderTrend ==
    /\ pc = "option"
    /\ \E sub \in SubInputs : strip(sub) \in {"1", "2"}
    /\ out' = [op |-> "series", n |-> 30, series |-> read_aligned_series(csv, today, 30)]
    /\ pc' = IF Undecodable(csv) THEN "crashed" ELSE "top"
    /\ UNCHANGED <<csv, messages_json, today, messages, today_str, score, used_recent,
                   first_msg, msg, csv_before, csv_prior, fs_error, runs, appends, arg>>

\* main, lines 323, 332-333: option 5 asks for the number of days.
AskDays ==
    /\ pc = "option"
    /\ \E sub \in SubInputs : strip(sub) = "5"
    /\ out' = [op |-> "ask_days"]
    /\ pc' = "days"
    /\ UNCHANGED <<csv, messages_json, today, messages, today_str, score, used_recent,
                   first_msg, msg, csv_before, csv_prior, fs_error, runs, appends, arg>>

\* main, lines 333-339 and 342: the number of days is read, then the log, and
\* the series of that many days is rendered.
RenderCustom ==
    /\ pc = "days"
    /\ \E raw_n \in RawNs :
         out' = [op |-> "series", n |-> CustomDays(raw_n),
                 series |-> read_aligned_series(csv, today, CustomDays(raw_n))]
    /\ pc' = IF Undecodable(csv) THEN "crashed" ELSE "top"
    /\ UNCHANGED <<csv, messages_json, today, messages, today_str, score, used_recent,
                   first_msg, msg, csv_before, csv_prior, fs_error, runs, appends, arg>>

\* main, lines 323 and 340-342: any other key returns to the main prompt.
BackToMenu ==
    /\ pc = "option"
    /\ \E sub \in SubInputs : strip(sub) \notin {"1", "2", "5"}
    /\ out' = [op |-> "back_to_menu"]
    /\ pc' = "top"
    /\ UNCHANGED <<csv, messages_json, today, messages, today_str, score, used_recent,
                   first_msg, msg, csv_before, csv_prior, fs_error, runs, appends, arg>>

\* main, lines 350-355: the number of diary entries asked for.
DiaryCount(raw_k) ==
    LET k == IF strip(raw_k) # ""
             THEN IF int(strip(raw_k)).ok THEN int(strip(raw_k)).val ELSE 10
             ELSE 10
    IN  Max(1, Min(100, k))

\* main, lines 344-350: the D command; the number of entries is asked for.
Diary ==
    /\ pc = "prompt"
    /\ \E raw \in PromptInputs :
         /\ Key(raw) = "d"
         /\ out' = [op |-> "ask_count", raw |-> raw]
    /\ pc' = "count"
    /\ UNCHANGED <<csv, messages_json, today, messages, today_str, score, used_recent,
                   first_msg, msg, csv_before, csv_prior, fs_error, runs, appends, arg>>

\* main, lines 350-356 and 359: the number is read, then the log, and the
\* diary entries are printed.
RenderDiary ==
    /\ pc = "count"
    /\ \E raw_k \in RawKs :
         out' = [op |-> "diary", rows |-> render_diary(csv, DiaryCount(raw_k))]
    /\ pc' = IF Undecodable(csv) THEN "crashed" ELSE "top"
    /\ UNCHANGED <<csv, messages_json, today, messages, today_str, score, used_recent,
                   first_msg, msg, csv_before, csv_prior, fs_error, runs, appends, arg>>

\* main, lines 305-359: the input is none of the commands.
NoCommand(raw) == Key(raw) \notin {"n", "no", "v", "d"}

\* Mutant of ValidScore: the upper limit 11 for 10.
ValidScoreTo11(raw) ==
    IF int(strip(raw)).ok
    THEN (1 <= int(strip(raw)).val) /\ (int(strip(raw)).val <= 11)
    ELSE FALSE

\* main, lines 362-369: the input parses as an integer in 1..10.
ValidScore(raw) ==
    IF int(strip(raw)).ok
    THEN (1 <= int(strip(raw)).val) /\ (int(strip(raw)).val <= 10)
    ELSE FALSE

\* main, lines 362-366: int(raw) raises.
Unrecognized ==
    /\ pc = "prompt"
    /\ \E raw \in PromptInputs :
         /\ NoCommand(raw)
         /\ ~int(strip(raw)).ok
         /\ out' = [op |-> "unrecognized", raw |-> raw]
    /\ pc' = "top"
    /\ UNCHANGED <<csv, messages_json, today, messages, today_str, score, used_recent,
                   first_msg, msg, csv_before, csv_prior, fs_error, runs, appends, arg>>

\* main, lines 367-369: an integer outside 1..10.
OutOfRange ==
    /\ pc = "prompt"
    /\ \E raw \in PromptInputs :
         /\ NoCommand(raw)
         /\ int(strip(raw)).ok
         /\ ~ValidScore(raw)
         /\ out' = [op |-> "out_of_range", raw |-> raw]
    /\ pc' = "top"
    /\ UNCHANGED <<csv, messages_json, today, messages, today_str, score, used_recent,
                   first_msg, msg, csv_before, csv_prior, fs_error, runs, appends, arg>>

\* main, lines 362-375: a score in 1..10; the recent messages are
\* read, a message is chosen and shown, and the swap question is asked.
EnterScore ==
    /\ pc = "prompt"
    /\ appends < MaxAppends
    /\ \E raw \in PromptInputs :
         /\ NoCommand(raw)
         /\ ValidScore(raw)
         /\ out' = [op |-> "choose_message", raw |-> raw]
         /\ score' = int(strip(raw)).val
         /\ used_recent' = read_recent_messages(csv, today, 30)
         /\ \E m \in choose_message(score', messages, <<>>, used_recent') :
              /\ msg' = m
              /\ first_msg' = m
    /\ pc' = "swap"
    /\ UNCHANGED <<csv, messages_json, today, messages, today_str, csv_before,
                   csv_prior, fs_error, runs, appends, arg>>

\* main, lines 375-383: the user asks for another message.
SwapMessage ==
    /\ pc = "swap"
    /\ \E ans \in SwapInputs : lower(strip(ans)) \in {"y", "yes"}
    /\ \E new_msg \in choose_message(score, messages, <<msg>>, used_recent) :
         /\ msg' = IF new_msg # msg THEN new_msg ELSE msg
         /\ out' = [op |-> "swap", new_msg |-> new_msg,
                    notice |-> IF new_msg # msg THEN "swapped" ELSE "no_alternative"]
    /\ pc' = "note"
    /\ UNCHANGED <<csv, messages_json, today, messages, today_str, score, used_recent,
                   first_msg, csv_before, csv_prior, fs_error, runs, appends, arg>>

\* main, lines 375-376: any other answer keeps the message.
KeepMessage ==
    /\ pc = "swap"
    /\ \E ans \in SwapInputs : lower(strip(ans)) \notin {"y", "yes"}
    /\ out' = [op |-> "keep"]
    /\ pc' = "note"
    /\ UNCHANGED <<csv, messages_json, today, messages, today_str, score, used_recent,
                   first_msg, msg, csv_before, csv_prior, fs_error, runs, appends, arg>>

\* main, lines 384-388: the note is read, the record appended and the 7-day
\* summary shown.  The locals of the entry are not read again (the next
\* iteration assigns them before use) and are cleared; out keeps the entry.
NoteAnswer ==
    /\ pc = "note"
    /\ \E raw \in NoteInputs :
         LET note == strip(raw)
         IN  /\ csv' = append_record(csv, today_str, score, msg, note)
             /\ out' = [op |-> "append_record",
                        row |-> <<today_str, str(score), msg, note>>,
                        stats |-> show_recent_stats(csv', today, 7),
                        score |-> score,
                        first_msg |-> first_msg,
                        second_msg |-> IF out.op = "swap" THEN <<out.new_msg>> ELSE <<>>,
                        notice |-> IF out.op = "swap" THEN out.notice ELSE "",
                        used_recent |-> used_recent]
    /\ csv_prior' = csv
    /\ appends' = appends + 1
    /\ score' = 0
    /\ used_recent' = {}
    /\ first_msg' = ""
    /\ msg' = ""
    /\ pc' = IF Undecodable(csv) THEN "crashed" ELSE "top"
    /\ UNCHANGED <<messages_json, today, messages, today_str, csv_before, fs_error,
                   runs, arg>>

\* The program is started again.
Restart ==
    /\ pc \in {"exited", "crashed"}
    /\ runs < MaxRuns
    /\ runs' = runs + 1
    /\ pc' = "start"
    /\ messages' = [t \in Tiers |-> <<>>]
    /\ today_str' = ""
    /\ score' = 0
    /\ used_recent' = {}
    /\ first_msg' = ""
    /\ msg' = ""
    /\ out' = NoOut
    /\ UNCHANGED <<csv, messages_json, today, csv_before, csv_prior, fs_error,
                   appends, arg>>

Next ==
    \/ EnsureStorage
    \/ LoadMessages
    \/ LoopTop
    \/ Quit
    \/ Visualize
    \/ RenderTrend
    \/ AskDays
    \/ RenderCustom
    \/ BackToMenu
    \/ Diary
    \/ RenderDiary
    \/ Unrecognized
    \/ OutOfRange
    \/ EnterScore
    \/ SwapMessage
    \/ KeepMessage
    \/ NoteAnswer
    \/ Restart

Spec == Init /\ [][Next]_vars

\* main() started on a log that is whole.
SpecIntact == InitIntact /\ [][Next]_vars

\* The same program on a filesystem that may fail during the migration.
NextFaulty == Next \/ EnsureStorageFault

SpecFaulty == Init /\ [][NextFaulty]_vars

----------------------------------------------------------------------------
(* ensure_storage called on its own, over logs of up to MaxOldRows data rows *)

InitMigrate ==
    /\ csv \in OldFiles
    /\ messages_json = [status |-> "absent", data |-> <<>>]
    /\ today = StartDay
    /\ pc = "start"
    /\ messages = [t \in Tiers |-> <<>>]
    /\ today_str = ""
    /\ score = 0
    /\ used_recent = {}
    /\ first_msg = ""
    /\ msg = ""
    /\ out = NoOut
    /\ csv_before = NoFile
    /\ csv_prior = NoFile
    /\ fs_error = "none"
    /\ runs = 1
    /\ appends = 0
    /\ arg = NoArg

\* ensure_storage() returns.
NextMigrate == EnsureStorage

SpecMigrate == InitMigrate /\ [][NextMigrate]_vars

----------------------------------------------------------------------------
(* choose_message called on its own, over every score and a range of banks *)

\* Message banks: the defaults, a bank without the mid and high tiers, a bank
\* with an empty mid list, an empty mapping.
Banks ==
    { defaults,
      ("low" :> <<"A", "B">>),
      ("low" :> <<"A">>) @@ ("mid" :> <<>>) @@ ("high" :> <<"H1", "H2">>),
      <<>> }

Excludable == {"A", "B", "L1", "M1", "H1", "H2"}

InitChoose ==
    /\ arg \in [fn : {"choose_message"}, score : 1..10, messages : Banks,
                exclude : {<<>>, <<"A">>, <<"M1">>, <<"H2">>},
                excludes : SUBSET Excludable]
    /\ pc = "call"
    /\ csv = NoFile
    /\ messages_json = [status |-> "absent", data |-> <<>>]
    /\ today = StartDay
    /\ messages = [t \in Tiers |-> <<>>]
    /\ today_str = ""
    /\ score = 0
    /\ used_recent = {}
    /\ first_msg = ""
    /\ msg = ""
    /\ out = NoOut
    /\ csv_before = NoFile
    /\ csv_prior = NoFile
    /\ fs_error = "none"
    /\ runs = 1
    /\ appends = 0

\* choose_message(score, messages, exclude, excludes) returns.
CallChooseMessage ==
    /\ pc = "call"
    /\ \E r \in choose_message(arg.score, arg.messages, arg.exclude, arg.excludes) :
         out' = [op |-> "choose_message", result |-> r]
    /\ pc' = "returned"
    /\ UNCHANGED <<csv, messages_json, today, messages, today_str, score, used_recent,
                   first_msg, msg, csv_before, csv_prior, fs_error, runs, appends, arg>>

NextChoose == CallChooseMessage

SpecChoose == InitChoose /\ [][NextChoose]_vars

----------------------------------------------------------------------------
(* Claims *)

Count(seq, x) == Cardinality({i \in DOMAIN seq : seq[i] = x})

\* C1: for every log state, append_record adds exactly one row
\* [day, s, message, note], s in 1..10, at the end of the log and leaves every
\* existing row as it was; read_all_records afterwards returns (day, s)
\* exactly once more than before and every other pair as often as before.
C1_AppendAddsOneRecord ==
    out.op = "append_record" =>
        LET before == read_all_records(csv_prior)
            after == read_all_records(csv)
            added == <<today_str, out.score>>
        IN  /\ out.score \in 1..10
            /\ out.row = <<today_str, str(out.score), out.row[3], out.row[4]>>
            /\ csv.exists
            /\ csv.rows = Append(csv_prior.rows, out.row)
            /\ Count(after, added) = Count(before, added) + 1
            /\ \A p \in (Range(before) \cup Range(after)) \ {added} :
                   Count(after, p) = Count(before, p)

\* The part of C1 that holds: the same, for a log that has a first row and
\* whose last line has its line terminator.
C1_OnTerminatedLogs ==
    (out.op = "append_record" /\ ~csv_prior.unterminated
                             /\ Len(csv_prior.rows) >= 1) =>
        LET before == read_all_records(csv_prior)
            after == read_all_records(csv)
            added == <<today_str, out.score>>
        IN  /\ out.score \in 1..10
            /\ out.row = <<today_str, str(out.score), out.row[3], out.row[4]>>
            /\ csv = File(Append(csv_prior.rows, out.row))
            /\ Count(after, added) = Count(before, added) + 1
            /\ \A p \in (Range(before) \cup Range(after)) \ {added} :
                   Count(after, p) = Count(before, p)

\* A record appended to a whole log that already holds the same
\* (day, score) pair once.
C1_TerminatedAppend ==
    /\ out.op = "append_record"
    /\ ~csv_prior.unterminated
    /\ Len(csv_prior.rows) >= 2
    /\ Count(read_all_records(csv_prior), <<today_str, out.score>>) = 1
    /\ Count(read_all_records(csv), <<today_str, out.score>>) = 2
    /\ out.row[4] = "ok"

\* A record appended to a log whose last record lacks its line terminator:
\* the log has as many rows as before and read_all_records returns what it
\* returned before.
C1_JoinedAppend ==
    /\ out.op = "append_record"
    /\ csv_prior.unterminated
    /\ Len(csv_prior.rows) = 2
    /\ Len(csv.rows) = 2
    /\ read_all_records(csv) = read_all_records(csv_prior)

\* C2: once ensure_storage has run, and through every later append and read,
\* the first row of the log file is the v2 header, whatever the file held
\* before.
C2_HeaderAlwaysV2 ==
    pc \notin {"start", "crashed"} =>
        /\ csv.exists
        /\ Len(csv.rows) >= 1
        /\ csv.rows[1] = HEADER_V2

\* The file exists and its first row has n fields.
HasFields(f, n) ==
    IF f.exists THEN (IF Len(f.rows) >= 1 THEN Len(f.rows[1]) = n ELSE FALSE) ELSE FALSE

\* C3: a second run of the migration leaves the file as the first run left
\* it (applying upgrade_csv_schema again to what ensure_storage produced
\* changes nothing, and the ensure_storage of a later start neither writes
\* nor changes the file), and a file whose first row has 4 fields is not
\* rewritten.
C3_MigrationIdempotent ==
    /\ pc = "load" =>
           /\ upgrade_csv_schema(csv, "none", 0).csv = csv
           /\ ~upgrade_csv_schema(csv, "none", 0).wrote
    /\ (out.op = "ensure_storage" /\ runs >= 2) =>
           /\ ~out.wrote
           /\ csv = csv_before
    /\ (out.op = "ensure_storage" /\ HasFields(csv_before, 4)) =>
           /\ ~out.wrote
           /\ csv = csv_before

\* C3 witness: the second start of the program, on a file that the first
\* start migrated from the v1 layout.
C3_Witness ==
    /\ out.op = "ensure_storage"
    /\ runs = 2
    /\ Len(csv.rows) >= 2
    /\ Len(csv.rows[2]) = 4
    /\ csv.rows[2][4] = ""
    /\ csv.rows[2][3] = "M1"

\* The file is one the migration reads to its end and takes for the v1
\* layout: it is UTF-8 and its first row has 3 fields.
IsV1File(f) == HasFields(f, 3) /\ ~Undecodable(f)

\* C4: migrating a file whose first row has 3 fields loses and reorders no
\* data: the header becomes the 4-field header, every 3-field data row stays
\* at its position with an empty 4th field appended, every other data row stays
\* at its position as it was, and read_all_records returns the same sequence
\* of pairs as before.
C4_MigrationKeepsData ==
    (out.op = "ensure_storage" /\ IsV1File(csv_before)) =>
        /\ out.wrote
        /\ csv = File(csv.rows)
        /\ Len(csv.rows) = Len(csv_before.rows)
        /\ csv.rows[1] = HEADER_V2
        /\ \A i \in 2..Len(csv_before.rows) :
               LET old == csv_before.rows[i]
               IN  IF Len(old) = 3
                   THEN csv.rows[i] = Append(old, "")
                   ELSE csv.rows[i] = old
        /\ read_all_records(csv) = read_all_records(csv_before)

\* C4 witness: a v1 file of two records has been migrated, the first a
\* 4-field row with blank-padded fields, the second a 3-field row of a later
\* day; both are where they were and read_all_records returns the two pairs
\* in file order.
C4_Witness ==
    /\ out.op = "ensure_storage"
    /\ csv_before = File(<<HEADER_V1, <<" 2024-03-05 ", " 7 ", "B", "memo">>,
                                      <<"2024-03-06", "5", "M1">> >>)
    /\ csv = File(<<HEADER_V2, <<" 2024-03-05 ", " 7 ", "B", "memo">>,
                              <<"2024-03-06", "5", "M1", "">> >>)
    /\ read_all_records(csv) = << <<"2024-03-05", 7>>, <<"2024-03-06", 5>> >>

\* C5: a filesystem error at any step of the migration leaves the file as it
\* was before the call and does not end the program.
C5_MigrationErrorHarmless ==
    (out.op = "ensure_storage" /\ fs_error # "none") =>
        /\ csv = csv_before
        /\ pc # "crashed"

RECURSIVE SumOver(_, _)
SumOver(records, idx) ==
    IF idx = {} THEN 0
    ELSE LET j == CHOOSE x \in idx : TRUE
         IN  records[j][2] + SumOver(records, idx \ {j})

\* The value the records give day d: the mean <<sum, count>> of the scores of
\* the records made on d, or None when there is none.
DayValue(records, d) ==
    LET idx == {j \in DOMAIN records : records[j][1] = d}
    IN  IF idx = {} THEN None ELSE <<SumOver(records, idx), Cardinality(idx)>>

\* The ISO texts of the n calendar days that end on day t, oldest first.
DaysEndingOn(t, n) == SubSeq(IsoDays, t - n + 1, t)

\* s has exactly n entries for contiguous calendar days, oldest first, ending
\* on day t, each with the value the log gives that day.
FullSeries(f, t, n, s) ==
    LET records == read_all_records(f)
    IN  /\ Len(s.days) = n
        /\ Len(s.values) = n
        /\ s.days = DaysEndingOn(t, n)
        /\ \A i \in 1..n : s.values[i] = DayValue(records, s.days[i])

\* C6 as stated: for every n >= 1 and every log, also a missing one or one
\* without a valid record, the aligned series has exactly n entries for
\* contiguous days ending today, each with the day's average or None.
C6_SeriesAlwaysFull ==
    /\ out.op = "series" => FullSeries(csv, today, out.n, out.series)
    /\ out.op = "append_record" => FullSeries(csv, today, 7, out.stats)
    /\ pc = "prompt" =>
           \A n \in 1..MaxN : FullSeries(csv, today, n, read_aligned_series(csv, today, n))

\* The series of a log: full when read_all_records returns a record, without
\* any entry when it returns none.
SeriesOf(f, t, n, s) ==
    IF read_all_records(f) # <<>>
    THEN FullSeries(f, t, n, s)
    ELSE s.days = <<>> /\ s.values = <<>>

\* C6 amended: for every n >= 1 and every log from which read_all_records
\* returns at least one record, the aligned series has exactly n entries for
\* contiguous days, oldest first, ending today, each with the day's average
\* or None; for a missing log or one without a valid record it has no entry.
C6_SeriesFullOrEmpty ==
    /\ out.op = "series" => SeriesOf(csv, today, out.n, out.series)
    /\ out.op = "append_record" => SeriesOf(csv, today, 7, out.stats)
    /\ pc = "prompt" =>
           \A n \in 1..MaxN : SeriesOf(csv, today, n, read_aligned_series(csv, today, n))

\* C6 witness: a 30-day series shown for a log with two records of score 5
\* made today and none made the day before.
C6_Witness ==
    /\ out.op = "series"
    /\ out.n = 30
    /\ Len(out.series.days) = 30
    /\ out.series.days[30] = "2024-03-06"
    /\ out.series.values[30] = <<10, 2>>
    /\ out.series.values[29] = None

\* The tier pool of a score as the specification gives it: low up to 4, mid
\* from 5 to 7, high from 8; the tier's list, or the one built-in message
\* when the list is empty or the bank has none.
TierPool(s, bank) ==
    LET t == CASE s \in 1..4 -> "low" [] s \in 5..7 -> "mid" [] s \in 8..10 -> "high"
        listed == IF t \in DOMAIN bank THEN Range(bank[t]) ELSE {}
    IN  IF listed # {}
        THEN listed
        ELSE {CASE t = "low" -> "L1" [] t = "mid" -> "M1" [] t = "high" -> "H1"}

\* C7: for every score in 1..10, bank, exclude and excludes, choose_message
\* returns a message of the score's tier pool: one outside the exclusions
\* whenever the pool has one, and otherwise some message of the pool.
C7_ChooseFromTierPool ==
    LET pool == TierPool(arg.score, arg.messages)
        excluded == Range(arg.exclude) \cup arg.excludes
    IN  /\ pc = "call" =>
               choose_message(arg.score, arg.messages, arg.exclude, arg.excludes) # {}
        /\ pc = "returned" =>
               /\ out.result \in pool
               /\ (pool \ excluded # {}) => (out.result \notin excluded)

\* C7 witness: score 4 with both messages of the low pool excluded, one by
\* exclude and one by excludes; choose_message returned one of the two.
C7_Witness ==
    /\ pc = "returned"
    /\ arg.score = 4
    /\ arg.messages = ("low" :> <<"A", "B">>)
    /\ arg.exclude = <<"A">>
    /\ arg.excludes = {"B", "M1"}
    /\ out.result = "B"

\* What C8 says of every swap apart from the pool [A, B]: the second pick
\* avoids the first pick and the recent messages whenever the pool has such a
\* message; with pool [A] it is A again; a second pick equal to the first is
\* reported as "no alternative" and the first pick kept, any other second
\* pick replaces it; and the message kept is the one recorded.
SwapRules ==
    /\ out.op = "swap" =>
           LET pool == Pool(score, messages)
               avoided == used_recent \cup {first_msg}
           IN  /\ out.new_msg \in Range(pool)
               /\ (Range(pool) \ avoided # {}) => (out.new_msg \notin avoided)
               /\ (pool = <<"A">>) => (out.new_msg = "A")
               /\ (out.new_msg = first_msg) =>
                      (out.notice = "no_alternative" /\ msg = first_msg)
               /\ (out.new_msg # first_msg) =>
                      (out.notice = "swapped" /\ msg = out.new_msg)
    /\ (out.op = "append_record" /\ out.second_msg # <<>>) =>
           /\ (out.second_msg[1] = out.first_msg) =>
                  (out.notice = "no_alternative" /\ out.row[3] = out.first_msg)
           /\ (out.second_msg[1] # out.first_msg) =>
                  (out.notice = "swapped" /\ out.row[3] = out.second_msg[1])

\* C8 as stated: the rules above, and with pool [A, B] and first pick A the
\* second pick is B.
C8_SwapAsStated ==
    /\ SwapRules
    /\ (out.op = "swap" /\ Pool(score, messages) = <<"A", "B">> /\ first_msg = "A") =>
           (out.new_msg = "B")

\* C8 amended: the rules above, and with pool [A, B] and first pick A the
\* second pick is B when B is not in the recency set; when B is in it, no
\* message of the pool is left, and the second pick is A or B.
C8_SwapSecondPick ==
    /\ SwapRules
    /\ (out.op = "swap" /\ Pool(score, messages) = <<"A", "B">> /\ first_msg = "A") =>
           IF "B" \notin used_recent
           THEN out.new_msg = "B"
           ELSE out.new_msg \in {"A", "B"}

\* C8 witness: pool [A, B], first pick A, B not used recently; the second
\* pick B has replaced A.
C8_Witness ==
    /\ out.op = "swap"
    /\ Pool(score, messages) = <<"A", "B">>
    /\ first_msg = "A"
    /\ "B" \notin used_recent
    /\ out.new_msg = "B"
    /\ msg = "B"

\* C8 witness of the other case: B was used recently, and the second pick
\* after the first pick A is B all the same.
C8_RecentPicked ==
    /\ out.op = "swap"
    /\ Pool(score, messages) = <<"A", "B">>
    /\ first_msg = "A"
    /\ "B" \in used_recent
    /\ out.new_msg = "B"

\* The inputs that are a score: the numerals of 1..10, outer blanks aside.
ScoreTexts == {"1", "2", "3", "4", "5", "6", "7", "8", "9", "10"}

IsHeaderRow(r) == IF Len(r) >= 1 THEN r[1] = "date" ELSE FALSE

\* The data rows of a log: every row but a header at the top.
RecordRows(f) ==
    IF Len(f.rows) >= 1
    THEN (IF IsHeaderRow(f.rows[1]) THEN Tail(f.rows) ELSE f.rows)
    ELSE <<>>

\* The pairs of the data rows that have at least 2 fields and an integer
\* score field, in file order.
ValidPairs(f) ==
    LET valid == SelectSeq(RecordRows(f),
                           LAMBDA r : IF Len(r) >= 2 THEN int(r[2]).ok ELSE FALSE)
    IN  [i \in 1..Len(valid) |-> <<strip(valid[i][1]), int(valid[i][2]).val>>]

\* C10: read_all_records never fails: for every log content it returns, in
\* file order, exactly one (day, score) pair for each data row with at least
\* 2 fields and an integer score field and skips every other row; from a
\* missing file it returns nothing.
C10_ReadAllSkipsMalformed ==
    /\ read_all_records(csv) # UnicodeDecodeError
    /\ read_all_records(csv) = (IF csv.exists THEN ValidPairs(csv) ELSE <<>>)
    /\ out.op = "series" =>
           ((out.series.days = <<>>) <=> (csv.exists => ValidPairs(csv) = <<>>))

\* The part of C10 that holds: the same, for a log that is UTF-8 and starts
\* with a header row.
C10_OnHeadedUtf8Logs ==
    (csv.exists /\ ~Undecodable(csv) /\ RecordRows(csv) = DataRows(csv)) =>
        /\ read_all_records(csv) = ValidPairs(csv)
        /\ out.op = "series" =>
               ((out.series.days = <<>>) <=> (ValidPairs(csv) = <<>>))

\* A log with a header, a row without an integer score and, after it, an
\* appended record; the series shown rests on the one valid record.
C10_SkippedRow ==
    /\ out.op = "series"
    /\ Len(csv.rows) = 3
    /\ csv.rows[2] = <<"2024-03-05", "abc">>
    /\ read_all_records(csv) = << <<"2024-03-06", 3>> >>
    /\ out.series.days # <<>>

\* A log that ends inside a character: read_all_records raises.
C10_ReadRaises ==
    /\ Undecodable(csv)
    /\ read_all_records(csv) = UnicodeDecodeError

\* A log without a header whose first row is a valid record: the record is
\* not returned.
C10_FirstRecordSkipped ==
    /\ pc = "load"
    /\ csv = File(<< <<"2024-03-05", "6", "M2", "memo">> >>)
    /\ ValidPairs(csv) = << <<"2024-03-05", 6>> >>
    /\ read_all_records(csv) = <<>>

\* C11: in every score entry, with or without a swap, the message written to
\* the log is not in the set of recent messages computed for that entry,
\* unless every message of the score's tier pool is in that set.
C11_RecordedNotRecent ==
    out.op = "append_record" =>
        \/ out.row[3] \notin out.used_recent
        \/ Range(Pool(out.score, messages)) \subseteq out.used_recent

\* The part of C11 about entries without a swap, and about swaps that kept
\* the first pick: the message recorded is then the first pick.
C11_FirstPickNotRecent ==
    (out.op = "append_record" /\ out.row[3] = out.first_msg) =>
        \/ out.row[3] \notin out.used_recent
        \/ Range(Pool(out.score, messages)) \subseteq out.used_recent

\* An entry of the kind C11_FirstPickNotRecent speaks of: pool [A, B], B used
\* recently, no swap asked for, A recorded.
C11_FirstPickRecorded ==
    /\ out.op = "append_record"
    /\ Pool(out.score, messages) = <<"A", "B">>
    /\ out.used_recent = {"B"}
    /\ out.second_msg = <<>>
    /\ out.row[3] = "A"

====
